---- MODULE Spec2Model ----
(***************************************************************************)
(* Model of offworldlab/adsb2dd's two Doppler analysis programs:           *)
(*   src/src/analyze_discrepancy.js  calculatePositionBasedDoppler and the *)
(*                                   synthetic velocity/position scenario  *)
(*   src/unnamed/part_000            manualVerification, the live harness  *)
(* node/geometry.js (lla2ecef, ft2m, norm) and node/doppler.js             *)
(* (calculateDopplerFromVelocity) are imported by both programs; they are  *)
(* modelled from sections 4.1 to 4.3 of the specification.                 *)
(*                                                                         *)
(* JavaScript Numbers are modelled as signed decimal fixed-point values    *)
(* with Frac limbs (radix Radix) after the point, plus the IEEE-754        *)
(* specials NaN and +/-Infinity, plus null and undefined.  Addition and    *)
(* subtraction are exact; multiplication, division and square root round   *)
(* towards zero but never round a non-zero result to zero (doubles do not  *)
(* underflow in the ranges used here).                                     *)
(***************************************************************************)
EXTENDS Integers, Sequences, FiniteSets, TLC

\* ------------------------------------------------------------------------
\* Magnitudes: little-endian sequences of limbs in 0..Radix-1, without
\* leading (high) zero limbs; <<>> is zero.
\* ------------------------------------------------------------------------
Radix == 10000

Frac == 3

Limb(a, i) == IF i <= Len(a) THEN a[i] ELSE 0

MaxOf(S) == CHOOSE m \in S : \A k \in S : k <= m

\* a without its high zero limbs
Trim(a) == SubSeq(a, 1, MaxOf({0} \cup {i \in 1..Len(a) : a[i] # 0}))

\* a natural number below Radix^3 as a magnitude
FromNat(n) == Trim(<<n % Radix, (n \div Radix) % Radix, n \div (Radix * Radix)>>)

Zeros(n) == [i \in 1..n |-> 0]

ShiftL(a, n) == IF a = <<>> \/ n <= 0 THEN a ELSE Zeros(n) \o a

ShiftR(a, n) == IF Len(a) <= n THEN <<>> ELSE SubSeq(a, n + 1, Len(a))

\* the order of a and b as decided at their highest differing limb i
CmpAt(a, b, i) == IF i = 0 THEN 0 ELSE IF a[i] < b[i] THEN -1 ELSE 1

CmpMag(a, b) ==
  IF Len(a) < Len(b) THEN -1
  ELSE IF Len(a) > Len(b) THEN 1
  ELSE CmpAt(a, b, MaxOf({0} \cup {i \in 1..Len(a) : a[i] # b[i]}))

RECURSIVE AddCarry(_, _, _, _)
AddCarry(a, b, i, c) ==
  IF i > Len(a) /\ i > Len(b)
  THEN (IF c = 0 THEN <<>> ELSE <<c>>)
  ELSE LET s == Limb(a, i) + Limb(b, i) + c
       IN  <<s % Radix>> \o AddCarry(a, b, i + 1, s \div Radix)

\* a + b for limb sequences with limbs below Radix
AddMag(a, b) == Trim(AddCarry(a, b, 1, 0))

RECURSIVE SubBorrow(_, _, _, _)
SubBorrow(a, b, i, c) ==
  IF i > Len(a) THEN <<>>
  ELSE LET s == a[i] - Limb(b, i) - c
       IN  IF s < 0
           THEN <<s + Radix>> \o SubBorrow(a, b, i + 1, 1)
           ELSE <<s>> \o SubBorrow(a, b, i + 1, 0)

\* a - b for a >= b
SubMag(a, b) == Trim(SubBorrow(a, b, 1, 0))

RECURSIVE MulCarry(_, _, _, _)
MulCarry(a, k, i, c) ==
  IF i > Len(a)
  THEN (IF c = 0 THEN <<>> ELSE <<c>>)
  ELSE LET s == a[i] * k + c
       IN  <<s % Radix>> \o MulCarry(a, k, i + 1, s \div Radix)

\* a * k for a limb k in 0..Radix-1
MulSmall(a, k) == IF k = 0 \/ a = <<>> THEN <<>> ELSE MulCarry(a, k, 1, 0)

\* column k of the schoolbook product: the sum of a[i] * b[k + 1 - i]
RECURSIVE ColSum(_, _, _, _)
ColSum(a, b, k, i) ==
  IF i > Len(a) \/ i > k THEN 0
  ELSE (IF k + 1 - i <= Len(b) THEN a[i] * b[k + 1 - i] ELSE 0)
       + ColSum(a, b, k, i + 1)

MulMag(a, b) ==
  IF a = <<>> \/ b = <<>> THEN <<>>
  ELSE LET n   == Len(a) + Len(b) - 1
           col == [k \in 1..n |-> ColSum(a, b, k, 1)]
           l0  == [k \in 1..n |-> col[k] % Radix]
           l1  == [k \in 1..(n + 1) |->
                     IF k = 1 THEN 0 ELSE (col[k - 1] \div Radix) % Radix]
           l2  == [k \in 1..(n + 2) |->
                     IF k <= 2 THEN 0 ELSE col[k - 2] \div (Radix * Radix)]
       IN  AddMag(AddMag(l0, l1), l2)

\* The largest d with d * b <= r, searched downwards from the estimate d.
RECURSIVE DigitDown(_, _, _)
DigitDown(r, b, d) ==
  IF d = 0 THEN 0
  ELSE IF CmpMag(MulSmall(b, d), r) <= 0 THEN d ELSE DigitDown(r, b, d - 1)

\* One quotient limb of r / b, for b with a top limb >= Radix \div 2 and
\* r < Radix * b: estimated from the top limbs (Knuth's algorithm D).
Min(x, y) == IF x < y THEN x ELSE y

Digit(r, b) ==
  IF CmpMag(r, b) < 0 THEN 0
  ELSE DigitDown(r, b, Min(Radix - 1,
         (Limb(r, Len(b)) + Radix * Limb(r, Len(b) + 1)) \div b[Len(b)]))

\* Long division of a by b from limb i downwards, with running remainder r
\* and the quotient limbs q found so far (little-endian).
RECURSIVE DivFrom(_, _, _, _, _)
DivStep(a, b, i, r1, d, q) ==
  DivFrom(a, b, i - 1, IF d = 0 THEN r1 ELSE SubMag(r1, MulSmall(b, d)), <<d>> \o q)

DivDigit(a, b, i, r1, q) == DivStep(a, b, i, r1, Digit(r1, b), q)

DivFrom(a, b, i, r, q) ==
  IF i = 0 THEN q ELSE DivDigit(a, b, i, Trim(<<a[i]>> \o r), q)

\* floor(an / bn) for bn with a top limb >= Radix \div 2
DivNorm(an, bn, lo) ==
  IF lo < 1 THEN <<>>
  ELSE Trim(DivFrom(an, bn, lo, Trim(SubSeq(an, lo + 1, Len(an))), <<>>))

DivScaled(an, bn) == DivNorm(an, bn, Len(an) - Len(bn) + 1)

DivBy(a, b, f) ==
  IF f = 1 THEN DivScaled(a, b) ELSE DivScaled(MulSmall(a, f), MulSmall(b, f))

\* floor(a / b) for b # <<>>
DivMag(a, b) == DivBy(a, b, Radix \div (b[Len(b)] + 1))

HalfMag(a) == ShiftR(MulSmall(a, Radix \div 2), 1)

\* floor(sqrt(n)) of a natural number n < Radix^2
RootFrom(n, lo) ==
  CHOOSE r \in lo..(lo + 99) : r * r <= n /\ (r + 1) * (r + 1) > n

SmallRoot(n) ==
  RootFrom(n, 100 * (CHOOSE c \in 0..100 : (100 * c) * (100 * c) <= n
                                          /\ (100 * (c + 1)) * (100 * (c + 1)) > n))

RECURSIVE Newton(_, _)
NewtonStep(n, x, y) == IF CmpMag(y, x) >= 0 THEN x ELSE Newton(n, y)

Newton(n, x) == NewtonStep(n, x, HalfMag(AddMag(x, DivMag(n, x))))

\* floor(sqrt(n)): Newton's iteration from an estimate above the root, taken
\* from the two top limbs (the square root of Radix is 100)
SqrtFrom(n, L, root) ==
  Newton(n, IF L = 1 THEN FromNat(root + 1)
            ELSE IF L % 2 = 0 THEN ShiftL(FromNat(root + 1), (L - 2) \div 2)
            ELSE ShiftL(FromNat((root + 1) * 100), (L - 3) \div 2))

SqrtMag(n) ==
  IF n = <<>> THEN <<>>
  ELSE SqrtFrom(n, Len(n),
         SmallRoot(IF Len(n) = 1 THEN n[1] ELSE n[Len(n)] * Radix + n[Len(n) - 1]))

\* ------------------------------------------------------------------------
\* JavaScript values: finite Numbers (sign sg, magnitude mag in units of
\* Radix^-Frac), NaN, +/-Infinity, null and undefined.
\* ------------------------------------------------------------------------
Num(s, m) == [k |-> "num", sg |-> IF m = <<>> THEN 0 ELSE s, mag |-> m]

NaN == [k |-> "nan", sg |-> 0, mag |-> <<>>]

Infinity(s) == [k |-> "inf", sg |-> s, mag |-> <<>>]

Null == [k |-> "null", sg |-> 0, mag |-> <<>>]

Undefined == [k |-> "undef", sg |-> 0, mag |-> <<>>]

Zero == Num(0, <<>>)

Ulp == <<1>>

\* a non-zero result is never rounded to zero
NonZero(m) == IF m = <<>> THEN Ulp ELSE m

\* The Number of an integer literal
Number(n) == IF n < 0 THEN Num(-1, ShiftL(FromNat(-n), Frac))
          ELSE Num(1, ShiftL(FromNat(n), Frac))

\* ToNumber: null is 0, undefined is NaN
ToNumber(v) == IF v.k = "null" THEN Zero ELSE IF v.k = "undef" THEN NaN ELSE v

\* the sign used for an Infinity produced from operand v (a zero counts as +0)
SignOf(v) == IF v.sg < 0 THEN -1 ELSE 1

jsNeg(a) ==
  LET v == ToNumber(a)
  IN  IF v.k = "nan" THEN NaN
      ELSE IF v.k = "inf" THEN Infinity(-v.sg)
      ELSE Num(-v.sg, v.mag)

jsAbs(a) ==
  LET v == ToNumber(a)
  IN  IF v.k = "nan" THEN NaN
      ELSE IF v.k = "inf" THEN Infinity(1)
      ELSE Num(1, v.mag)

\* v + w for opposite signs, c the order of their magnitudes
SubNum(v, w, c) ==
  IF c = 0 THEN Zero
  ELSE IF c > 0 THEN Num(v.sg, SubMag(v.mag, w.mag))
  ELSE Num(w.sg, SubMag(w.mag, v.mag))

AddNum(v, w) ==
  IF v.sg = 0 THEN w
  ELSE IF w.sg = 0 THEN v
  ELSE IF v.sg = w.sg THEN Num(v.sg, AddMag(v.mag, w.mag))
  ELSE SubNum(v, w, CmpMag(v.mag, w.mag))

jsAdd(a, b) ==
  LET v == ToNumber(a)
      w == ToNumber(b)
  IN  IF v.k = "nan" \/ w.k = "nan" THEN NaN
      ELSE IF v.k = "inf" /\ w.k = "inf"
           THEN (IF v.sg = w.sg THEN v ELSE NaN)
      ELSE IF v.k = "inf" THEN v
      ELSE IF w.k = "inf" THEN w
      ELSE AddNum(v, w)

jsSub(a, b) == jsAdd(a, jsNeg(b))

\* truncating product of two finite Numbers
MulT(v, w) == Num(v.sg * w.sg, ShiftR(MulMag(v.mag, w.mag), Frac))

jsMul(a, b) ==
  LET v == ToNumber(a)
      w == ToNumber(b)
  IN  IF v.k = "nan" \/ w.k = "nan" THEN NaN
      ELSE IF v.k = "inf" \/ w.k = "inf"
           THEN (IF v.sg = 0 \/ w.sg = 0 THEN NaN ELSE Infinity(v.sg * w.sg))
      ELSE IF v.sg = 0 \/ w.sg = 0 THEN Zero
      ELSE Num(v.sg * w.sg, NonZero(ShiftR(MulMag(v.mag, w.mag), Frac)))

jsDiv(a, b) ==
  LET v == ToNumber(a)
      w == ToNumber(b)
  IN  IF v.k = "nan" \/ w.k = "nan" THEN NaN
      ELSE IF v.k = "inf"
           THEN (IF w.k = "inf" THEN NaN ELSE Infinity(v.sg * SignOf(w)))
      ELSE IF w.k = "inf" THEN Zero
      ELSE IF w.sg = 0
           THEN (IF v.sg = 0 THEN NaN ELSE Infinity(v.sg))
      ELSE IF v.sg = 0 THEN Zero
      ELSE Num(v.sg * w.sg, NonZero(DivMag(ShiftL(v.mag, Frac), w.mag)))

\* a < b (false when either is NaN)
IsPositive(d) == d.k # "nan" /\ d.sg > 0

jsLt(a, b) == IsPositive(jsSub(b, a))

\* Math.sqrt
MathSqrt(a) ==
  LET v == ToNumber(a)
  IN  IF v.k = "nan" \/ v.sg < 0 THEN NaN
      ELSE IF v.k = "inf" THEN v
      ELSE Num(1, SqrtMag(ShiftL(v.mag, Frac)))

\* A decimal literal n / 10^e, e.g. Dec(20464, 100) for 204.64
Dec(n, pow10) == jsDiv(Number(n), Number(pow10))

\* Math.PI = 3.14159265358979323846264338...
PiLimbs == <<1415, 9265, 3589, 7932, 3846, 2643, 3832>>

MathPI == Num(1, [i \in 1..(Frac + 1) |->
                    IF i = Frac + 1 THEN 3 ELSE PiLimbs[Frac + 1 - i]])

\* Taylor series of sine and cosine: term is the current term x^n / n!
RECURSIVE Series(_, _, _, _)
\* the term after the one whose product with x^2 is t
NextTerm(t, n) == Num(-t.sg, DivMag(t.mag, FromNat((n + 1) * (n + 2))))

Series(term, x2, n, acc) ==
  IF term.sg = 0 THEN acc
  ELSE Series(NextTerm(MulT(term, x2), n), x2, n + 2, AddNum(acc, term))

SinSeries(r) == Series(r, MulT(r, r), 1, Zero)

CosSeries(r) == Series(Number(1), MulT(r, r), 0, Zero)

HalfPi == Num(1, HalfMag(MathPI.mag))

\* |v| = q * (pi / 2) + r with 0 <= r < pi / 2: <<q mod 4, r>>
Remainder(v, q) ==
  <<Limb(q, 1) % 4, Num(1, SubMag(v.mag, MulMag(q, HalfPi.mag)))>>

Reduce(v) == Remainder(v, DivMag(v.mag, HalfPi.mag))

\* sine of q * (pi / 2) + r for qr = <<q, r>>
SinAt(qr) ==
  IF qr[1] = 0 THEN SinSeries(qr[2])
  ELSE IF qr[1] = 1 THEN CosSeries(qr[2])
  ELSE IF qr[1] = 2 THEN jsNeg(SinSeries(qr[2]))
  ELSE jsNeg(CosSeries(qr[2]))

\* cosine of q * (pi / 2) + r for qr = <<q, r>>
CosAt(qr) ==
  IF qr[1] = 0 THEN CosSeries(qr[2])
  ELSE IF qr[1] = 1 THEN jsNeg(SinSeries(qr[2]))
  ELSE IF qr[1] = 2 THEN jsNeg(CosSeries(qr[2]))
  ELSE SinSeries(qr[2])

SinNum(v) ==
  IF v.k # "num" THEN NaN
  ELSE IF v.sg < 0 THEN jsNeg(SinAt(Reduce(v))) ELSE SinAt(Reduce(v))

MathSin(a) == SinNum(ToNumber(a))

CosNum(v) == IF v.k # "num" THEN NaN ELSE CosAt(Reduce(v))

MathCos(a) == CosNum(ToNumber(a))

\* ------------------------------------------------------------------------
\* node/geometry.js (specification 4.1, 4.2)
\* ------------------------------------------------------------------------
\* WGS84 semi-major axis in metres
WGS84_A == 6378137

\* WGS84 flattening 1 / 298.257223563
WGS84_F == jsDiv(Number(1), jsAdd(Number(298), Dec(257223563, 1000000000)))

\* first eccentricity squared, f * (2 - f)
WGS84_E2 == jsMul(WGS84_F, jsSub(Number(2), WGS84_F))

deg2rad(deg) == jsDiv(jsMul(deg, MathPI), Number(180))

\* feetToMeters: multiply by 0.3048
ft2m(ft) == jsMul(ft, Dec(3048, 10000))

\* vectorNorm: sqrt(x^2 + y^2 + z^2) of a 3-vector <<x, y, z>>
norm(v) ==
  MathSqrt(jsAdd(jsAdd(jsMul(v[1], v[1]), jsMul(v[2], v[2])), jsMul(v[3], v[3])))

\* prime vertical radius of curvature N = a / sqrt(1 - e2 * sin(lat)^2)
PrimeVertical(sinLat) ==
  jsDiv(Number(WGS84_A),
        MathSqrt(jsSub(Number(1), jsMul(WGS84_E2, jsMul(sinLat, sinLat)))))

Ecef(N, alt, sinLat, cosLat, sinLon, cosLon) ==
  [x |-> jsMul(jsMul(jsAdd(N, alt), cosLat), cosLon),
   y |-> jsMul(jsMul(jsAdd(N, alt), cosLat), sinLon),
   z |-> jsMul(jsAdd(jsMul(N, jsSub(Number(1), WGS84_E2)), alt), sinLat)]

EcefAt(alt, sinLat, cosLat, sinLon, cosLon) ==
  Ecef(PrimeVertical(sinLat), alt, sinLat, cosLat, sinLon, cosLon)

LatLonRad(latRad, lonRad, alt) ==
  EcefAt(alt, MathSin(latRad), MathCos(latRad), MathSin(lonRad), MathCos(lonRad))

\* geodeticToECEF on the WGS84 ellipsoid
lla2ecef(lat, lon, alt) == LatLonRad(deg2rad(lat), deg2rad(lon), alt)

\* the vector from ECEF point p to ECEF point q
Diff(q, p) == <<jsSub(q.x, p.x), jsSub(q.y, p.y), jsSub(q.z, p.z)>>

\* ------------------------------------------------------------------------
\* node/doppler.js (specification 4.3)
\* ------------------------------------------------------------------------
\* speed of light in m/s
SpeedOfLight == 299792458

\* wavelength = c / (fc * 1e6), fc in MHz
Wavelength(fc) == jsDiv(Number(SpeedOfLight), jsMul(fc, Number(1000000)))

\* ENU velocity of the aircraft rotated into ECEF at its own lat / lon
\* knots to m/s
KnotsToMps(gs) == jsMul(gs, Dec(514444, 1000000))

\* defect: an absent vertical rate is not replaced by 0
FpmToMpsNoDefault(geom_rate) == jsMul(geom_rate, Dec(508, 100000))

\* feet per minute to m/s; an absent vertical rate is 0
FpmToMps(geom_rate) ==
  IF geom_rate.k = "undef" THEN Zero ELSE jsMul(geom_rate, Dec(508, 100000))

\* the ENU vector <<east, north, up>> rotated into ECEF at the given lat / lon
EnuToEcef(east, north, up, sinLat, cosLat, sinLon, cosLon) ==
  <<jsAdd(jsSub(jsNeg(jsMul(sinLon, east)), jsMul(jsMul(sinLat, cosLon), north)),
          jsMul(jsMul(cosLat, cosLon), up)),
    jsAdd(jsSub(jsMul(cosLon, east), jsMul(jsMul(sinLat, sinLon), north)),
          jsMul(jsMul(cosLat, sinLon), up)),
    jsAdd(jsMul(cosLat, north), jsMul(sinLat, up))>>

\* east = v * sin(track), north = v * cos(track)
EnuVelocity(v, trk, up, latRad, lonRad) ==
  EnuToEcef(jsMul(v, MathSin(trk)), jsMul(v, MathCos(trk)), up,
            MathSin(latRad), MathCos(latRad), MathSin(lonRad), MathCos(lonRad))

\* ENU velocity of the aircraft rotated into ECEF at its own lat / lon
VelocityECEF(aircraft) ==
  EnuVelocity(KnotsToMps(aircraft.gs), deg2rad(aircraft.track),
              FpmToMps(aircraft.geom_rate),
              deg2rad(aircraft.lat), deg2rad(aircraft.lon))

Dot(u, v) ==
  jsAdd(jsAdd(jsMul(u[1], v[1]), jsMul(u[2], v[2])), jsMul(u[3], v[3]))

\* unit vector along d, whose length r the caller supplies; for a zero range
\* it has no direction (NaN components)
Unit(d, r) == <<jsDiv(d[1], r), jsDiv(d[2], r), jsDiv(d[3], r)>>

AddVec(u, v) == <<jsAdd(u[1], v[1]), jsAdd(u[2], v[2]), jsAdd(u[3], v[3])>>

\* rangeRate = -(velocityECEF . (uRx + uTx))
RangeRate(vel, uRx, uTx) == jsNeg(Dot(vel, AddVec(uRx, uTx)))

calculateDopplerFromVelocity(aircraft, aircraft_ecef, ecefRx, ecefTx, dRxTar, dTxTar, fc) ==
  IF aircraft.gs.k = "undef" \/ aircraft.track.k = "undef" THEN Null
  ELSE jsDiv(jsNeg(RangeRate(VelocityECEF(aircraft),
                             Unit(Diff(ecefRx, aircraft_ecef), dRxTar),
                             Unit(Diff(ecefTx, aircraft_ecef), dTxTar))),
             Wavelength(fc))

\* ------------------------------------------------------------------------
\* Faulty variants of calculatePositionBasedDoppler, each with one defect
\* ------------------------------------------------------------------------
\* excess bistatic delay path of one position
DelayOf(pos, ecefRx, ecefTx, dRxTx) ==
  jsSub(jsAdd(norm(Diff(ecefRx, pos)), norm(Diff(ecefTx, pos))), dRxTx)

\* the estimator differencing sample n against sample n - back, returning
\* null below minLen samples, with the factor sign before the range rate
EstimateWith(positions, timestamps, ecefRx, ecefTx, dRxTx, fc, minLen, back, sign) ==
  IF Len(positions) < minLen THEN Null
  ELSE jsDiv(jsMul(Number(sign),
                   jsDiv(jsSub(DelayOf(positions[Len(positions)], ecefRx, ecefTx, dRxTx),
                               DelayOf(positions[Len(positions) - back], ecefRx, ecefTx, dRxTx)),
                         jsSub(timestamps[Len(positions)],
                               timestamps[Len(positions) - back]))),
             jsDiv(Number(299792458), jsMul(fc, Number(1000000))))

\* defect: asks for three samples before it answers
NeedsThreeSamples(positions, timestamps, ecefRx, ecefTx, dRxTx, fc) ==
  EstimateWith(positions, timestamps, ecefRx, ecefTx, dRxTx, fc, 3, 1, -1)

\* defect: the range rate is not negated
InvertedSign(positions, timestamps, ecefRx, ecefTx, dRxTx, fc) ==
  EstimateWith(positions, timestamps, ecefRx, ecefTx, dRxTx, fc, 2, 1, 1)

\* defect: differences across three samples when the history has them
SpansThreeSamples(positions, timestamps, ecefRx, ecefTx, dRxTx, fc) ==
  EstimateWith(positions, timestamps, ecefRx, ecefTx, dRxTx, fc, 2,
               IF Len(positions) >= 3 THEN 2 ELSE 1, -1)

\* ------------------------------------------------------------------------
\* src/src/analyze_discrepancy.js: calculatePositionBasedDoppler
\* ------------------------------------------------------------------------
calculatePositionBasedDoppler(positions, timestamps, ecefRx, ecefTx, dRxTx, fc) ==
  IF Len(positions) < 2 THEN Null
  ELSE LET delays == [i \in 1..Len(positions) |->
                        LET pos    == positions[i]
                            dRxTar == norm(Diff(ecefRx, pos))
                            dTxTar == norm(Diff(ecefTx, pos))
                        IN  jsSub(jsAdd(dRxTar, dTxTar), dRxTx)]
           \* delays.length: map keeps the length of positions
           n          == Len(positions)
           dt         == jsSub(timestamps[n], timestamps[n - 1])
           dd         == jsSub(delays[n], delays[n - 1])
           range_rate == jsDiv(dd, dt)
           wavelength == jsDiv(Number(299792458), jsMul(fc, Number(1000000)))
       IN  jsDiv(jsNeg(range_rate), wavelength)

\* ------------------------------------------------------------------------
\* State
\* ------------------------------------------------------------------------
VARIABLES
  positions,      \* array of ECEF positions (analyze_discrepancy.js:38)
  timestamps,     \* array of their timestamps (analyze_discrepancy.js:39)
  call,           \* <<ecefRx, ecefTx, dRxTx, fc>> of the last estimator call
  result,         \* what that call returned
  pcPos,          \* "idle" | "returned": whether result is of the history
  vin,            \* arguments of a calculateDopplerFromVelocity call
  vresult,        \* what that call returned
  pcVel,          \* "off" | "ready" | "returned"
  prog,           \* the script that runs: "analyze" | "verify" | "none"
  pc,             \* its position
  log,            \* what it computed, fetched and printed so far, in order
  env,            \* the script's constants and variables, by name
  exitCode        \* process exit code, -1 while the script runs

posVars == <<positions, timestamps, call, result, pcPos>>

velVars == <<vin, vresult, pcVel>>

scriptVars == <<prog, pc, log, env, exitCode>>

vars == <<positions, timestamps, call, result, pcPos, vin, vresult, pcVel,
          prog, pc, log, env, exitCode>>

\* the variables of a script before any is assigned
NoEnv ==
  [ecefRx |-> Undefined, ecefTx |-> Undefined, dRxTx |-> Undefined,
   t |-> 0, json |-> Undefined, aircraft |-> Undefined,
   aircraft_ecef |-> Undefined, dRxTar |-> Undefined, dTxTar |-> Undefined,
   doppler_vel |-> Undefined, doppler_pos |-> Undefined,
   doppler_manual |-> Undefined, api_data |-> Undefined,
   api_doppler |-> Undefined, diff |-> Undefined, percent_diff |-> Undefined]

PosIdle ==
  /\ positions = <<>>
  /\ timestamps = <<>>
  /\ call = <<>>
  /\ result = Undefined
  /\ pcPos = "idle"

VelIdle ==
  /\ vin = <<>>
  /\ vresult = Undefined
  /\ pcVel = "off"

ScriptIdle ==
  /\ prog = "none"
  /\ pc = "none"
  /\ log = <<>>
  /\ env = NoEnv
  /\ exitCode = -1

\* ------------------------------------------------------------------------
\* Calls of calculatePositionBasedDoppler on a growing position history
\* ------------------------------------------------------------------------
MaxLen == 3

Vec(x, y, z) == [x |-> Number(x), y |-> Number(y), z |-> Number(z)]

\* target positions: above the middle of the baseline, above Rx, above Tx
Points == {Vec(0, 0, 4), Vec(3, 0, 4), Vec(-3, 0, 4)}

\* time between two samples in seconds; 0 repeats a timestamp
Steps == {0, 2}

\* carrier frequency in MHz (analyze_discrepancy.js:28)
fc == Dec(20464, 100)

\* station geometries <<ecefRx, ecefTx>>
SymmetricStations == <<Vec(3, 0, 0), Vec(-3, 0, 0)>>

SkewStations == <<Vec(0, 5, 0), Vec(1, -1, 2)>>

Baseline(g) == norm(Diff(g[1], g[2]))

\* <<ecefRx, ecefTx, dRxTx, fc>>: the true baseline or none, and a carrier
\* frequency that is positive, zero or negative
CallArgs ==
  { <<SymmetricStations[1], SymmetricStations[2], Baseline(SymmetricStations), fc>>,
    <<SymmetricStations[1], SymmetricStations[2], Baseline(SymmetricStations), Zero>>,
    <<SymmetricStations[1], SymmetricStations[2], Baseline(SymmetricStations), jsNeg(fc)>>,
    <<SkewStations[1], SkewStations[2], Zero, fc>> }

InitPosition == PosIdle /\ VelIdle /\ ScriptIdle

\* the call has returned a value for the current history
Returned == pcPos = "returned"

\* t[last] - t[prev] of the current history
LastDt == jsSub(timestamps[Len(timestamps)], timestamps[Len(timestamps) - 1])

\* total bistatic path of sample i under the geometry of the call
Path(i) ==
  jsAdd(norm(Diff(call[1], positions[i])), norm(Diff(call[2], positions[i])))

\* path[last] - path[prev]
LastDPath == jsSub(Path(Len(positions)), Path(Len(positions) - 1))

\* an explicit error outcome; the estimator has none
Failed(v) == v.k = "error"

\* the producer appends one sample to the history
AppendSample ==
  /\ Len(positions) < MaxLen
  /\ \E p \in Points, d \in Steps :
       /\ positions' = Append(positions, p)
       /\ timestamps' = Append(timestamps,
                               IF timestamps = <<>> THEN Zero
                               ELSE jsAdd(timestamps[Len(timestamps)], Number(d)))
  /\ call' = <<>>
  /\ result' = Undefined
  /\ pcPos' = "idle"
  /\ UNCHANGED <<velVars, scriptVars>>

\* calculatePositionBasedDoppler(positions, timestamps, ecefRx, ecefTx, dRxTx, fc)
Estimate ==
  /\ pcPos = "idle"
  /\ \E a \in CallArgs :
       /\ call' = a
       /\ result' = calculatePositionBasedDoppler(positions, timestamps,
                                                  a[1], a[2], a[3], a[4])
  /\ pcPos' = "returned"
  /\ UNCHANGED <<positions, timestamps, velVars, scriptVars>>

NextPosition == AppendSample \/ Estimate

SpecPosition == InitPosition /\ [][NextPosition]_vars

\* C1: with fewer than 2 samples the position-based estimator returns null;
\* with 2 or more samples whose last two timestamps differ it returns a
\* finite number, whatever the geometry, baseline and carrier frequency.
C1_NullBelowTwoSamples ==
  Returned =>
    /\ Len(positions) < 2 => result = Null
    /\ (Len(positions) >= 2 /\ LastDt.sg # 0) => result.k = "num"

\* C1 happens: a history of two samples a positive time apart gave a
\* non-zero finite number
C1_Witness ==
  /\ Returned
  /\ Len(positions) = 2
  /\ LastDt.sg > 0
  /\ result.k = "num" /\ result.sg # 0

\* C2 as claimed: when the two most recent timestamps are equal the
\* estimator ends with an explicit error, not with NaN, Infinity or another
\* number.
C2_EqualTimestampsFail ==
  (Returned /\ Len(positions) >= 2 /\ LastDt.sg = 0) => Failed(result)

\* C4 as claimed: a call with a zero or negative carrier frequency ends with
\* an explicit error and returns no Doppler value.
C4_InvalidFrequencyFails ==
  (Returned /\ Len(positions) >= 2 /\ ~IsPositive(call[4])) => Failed(result)

\* C5: with strictly increasing last two timestamps and a positive carrier
\* frequency, the result is positive when the total bistatic path of the
\* last sample is smaller than that of the previous one, negative when it is
\* larger, and zero when it is equal.
C5_SignConvention ==
  (Returned /\ Len(positions) >= 2 /\ LastDt.sg > 0 /\ IsPositive(call[4])) =>
    result.k = "num" /\ result.sg = -LastDPath.sg

\* C5 happens: the target approached (shorter path) and the result is positive
C5_Witness ==
  /\ Returned /\ Len(positions) >= 2
  /\ LastDt.sg > 0 /\ IsPositive(call[4])
  /\ LastDPath.sg < 0
  /\ result.sg > 0

rxLat == Number(-35)

rxLon == Dec(1387, 10)

rxAlt == Number(50)

txLat == Number(-35)

txLon == Dec(1386, 10)

txAlt == Number(50)

StationRx == lla2ecef(rxLat, rxLon, rxAlt)

StationTx == lla2ecef(txLat, txLon, txAlt)

\* ------------------------------------------------------------------------
\* Calls of calculateDopplerFromVelocity on aircraft states and geometries
\* ------------------------------------------------------------------------
\* a second station pair, away from the scripts' one
OtherRx == lla2ecef(Dec(-349, 10), Dec(1385, 10), Number(100))

OtherTx == lla2ecef(Dec(-351, 10), Dec(1389, 10), Number(20))

StationPairs == {<<StationRx, StationTx>>, <<OtherRx, OtherTx>>}

\* target positions <<lat, lon, ECEF>> at 30100 ft
TargetPositions ==
  { <<Number(-35), Dec(13865, 100),
      lla2ecef(Number(-35), Dec(13865, 100), ft2m(Number(30100)))>>,
    <<Dec(-348, 10), Dec(1384, 10),
      lla2ecef(Dec(-348, 10), Dec(1384, 10), ft2m(Number(30100)))>> }

GroundSpeeds == {Undefined, Zero, Dec(885, 10)}

Tracks == {Undefined, Number(270), Number(45)}

VerticalRates == {Undefined, Zero, Number(1200), Number(-640)}

\* the arguments of one call; the target is at its reported position or,
\* when colocated, at the receiver
VelocityInput(p, gs, track, rate, g, colocated) ==
  LET e == IF colocated THEN g[1] ELSE p[3]
  IN  [aircraft |-> [lat |-> p[1], lon |-> p[2], gs |-> gs, track |-> track,
                     geom_rate |-> rate],
       aircraft_ecef |-> e, ecefRx |-> g[1], ecefTx |-> g[2],
       dRxTar |-> norm(Diff(g[1], e)), dTxTar |-> norm(Diff(g[2], e)),
       fc |-> fc]

VelocityInputs ==
  { VelocityInput(p, gs, track, rate, g, FALSE) :
      p \in TargetPositions, gs \in GroundSpeeds, track \in Tracks,
      rate \in VerticalRates, g \in StationPairs }
  \cup
  { VelocityInput(p, Zero, Number(270), Undefined, <<StationRx, StationTx>>, TRUE) :
      p \in TargetPositions }

InitVelocity ==
  /\ PosIdle
  /\ ScriptIdle
  /\ vin \in VelocityInputs
  /\ vresult = Undefined
  /\ pcVel = "ready"

\* calculateDopplerFromVelocity(aircraft, aircraft_ecef, ecefRx, ecefTx, dRxTar, dTxTar, fc)
EstimateVelocity ==
  /\ pcVel = "ready"
  /\ vresult' = calculateDopplerFromVelocity(vin.aircraft, vin.aircraft_ecef,
                                             vin.ecefRx, vin.ecefTx,
                                             vin.dRxTar, vin.dTxTar, vin.fc)
  /\ pcVel' = "returned"
  /\ UNCHANGED <<vin, posVars, scriptVars>>

NextVelocity == EstimateVelocity

SpecVelocity == InitVelocity /\ [][NextVelocity]_vars

\* the call was made for a stationary aircraft: ground speed 0, track present
Stationary == pcVel = "returned" /\ vin.aircraft.gs = Zero /\ vin.aircraft.track.k = "num"

\* C6 as claimed: for ground speed 0 with a track, any vertical rate
\* (a non-zero one included), any target position and any station geometry,
\* the velocity-based estimator returns exactly 0 Hz.
C6_ZeroSpeedZeroDoppler == Stationary => vresult = Zero

\* C6 amended: for ground speed 0 with a track, a vertical rate that is
\* absent or 0, and a target that is at neither station, the velocity-based
\* estimator returns exactly 0 Hz.
C6_ZeroVelocityZeroDoppler ==
  ( /\ Stationary
    /\ vin.aircraft.geom_rate \in {Undefined, Zero}
    /\ vin.dRxTar.sg # 0 /\ vin.dTxTar.sg # 0 ) => vresult = Zero

\* C6 amended happens: a stationary aircraft without a vertical rate, away
\* from the stations, got 0 Hz
C6_Witness ==
  /\ Stationary
  /\ vin.aircraft.geom_rate = Undefined
  /\ vin.dRxTar.sg # 0 /\ vin.dTxTar.sg # 0
  /\ vresult = Zero

\* ------------------------------------------------------------------------
\* src/unnamed/part_000: manualVerification, the live verification harness
\* ------------------------------------------------------------------------
\* an aircraft object of the feed; an absent property is undefined
Aircraft(hex, lat, lon, alt_geom, gs, track, geom_rate) ==
  [hex |-> hex, lat |-> lat, lon |-> lon, alt_geom |-> alt_geom,
   gs |-> gs, track |-> track, geom_rate |-> geom_rate]

Climbing ==
  Aircraft("7c1abc", Dec(-348, 10), Dec(1384, 10), Number(30100),
           Dec(885, 10), Number(45), Number(1200))

Level ==
  Aircraft("7c2def", Dec(-348, 10), Dec(1384, 10), Number(12000),
           Number(240), Number(200), Undefined)

NoSpeed ==
  Aircraft("7c3aaa", Dec(-348, 10), Dec(1384, 10), Number(30100),
           Undefined, Number(270), Number(1200))

NoTrack ==
  Aircraft("7c4bbb", Number(-35), Dec(13865, 100), Number(30100),
           Dec(885, 10), Undefined, Undefined)

NoVelocity ==
  Aircraft("7c5ccc", Number(-35), Dec(13865, 100), Number(30100),
           Undefined, Undefined, Undefined)

Parked ==
  Aircraft("7c6ddd", Dec(-348, 10), Dec(1384, 10), Number(20),
           Zero, Number(270), Undefined)

FeedAircraft == {Climbing, Level, NoSpeed, NoTrack, NoVelocity, Parked}

\* the JSON documents of the tracking feed: without an aircraft list, with an
\* empty one, with one aircraft, with two
Feeds ==
  { [has_aircraft |-> FALSE, aircraft |-> <<>>],
    [has_aircraft |-> TRUE, aircraft |-> <<>>] }
  \cup { [has_aircraft |-> TRUE, aircraft |-> <<a>>] : a \in FeedAircraft }
  \cup { [has_aircraft |-> TRUE, aircraft |-> <<NoSpeed, Climbing>>],
         [has_aircraft |-> TRUE, aircraft |-> <<Climbing, NoVelocity>>] }

\* differences between the API value and the manual one, in thousandths of
\* the manual value
Permilles == {0, 5, 10, 30, 50, 80}

\* ceiling of m * permille / 1000 on magnitudes
PermilleOf(m, permille) ==
  DivMag(AddMag(MulSmall(m, permille), FromNat(999)), FromNat(1000))

\* the Number at permille thousandths of |v| above (dir = 1) or below v
Offset(v, permille, dir) == AddNum(v, Num(dir, PermilleOf(v.mag, permille)))

\* Doppler values an API entry may carry, around the manual value when there
\* is one; undefined is an entry without a doppler property
ApiDopplers(manual) ==
  {Undefined, Zero, Number(2)}
  \cup (IF manual.k = "num" /\ manual.sg # 0
        THEN {Offset(manual, p, d) : p \in Permilles, d \in {-1, 1}}
        ELSE {})

\* the JSON documents of the validation API: an error, no entry for the
\* aircraft, or an entry with doppler and doppler_method
ApiResponses(hex, manual) ==
  { [error |-> TRUE, entries |-> <<>>],
    [error |-> FALSE, entries |-> <<>>] }
  \cup { [error |-> FALSE,
          entries |-> [h \in {hex} |-> [doppler |-> d, doppler_method |-> m]]] :
           d \in ApiDopplers(manual), m \in {"velocity", "position"} }

\* parseFloat of a JSON number, or of an absent property
parseFloat(v) == IF v.k \in {"num", "inf"} THEN v ELSE NaN

Logged(e) == \E i \in 1..Len(log) : log[i] = e

Count(e) == Cardinality({i \in 1..Len(log) : log[i] = e})

\* whether event e is logged and every event f is logged only after it
Precedes(e, f) ==
  \A j \in 1..Len(log) : log[j] = f => \E i \in 1..(j - 1) : log[i] = e

InitScripts ==
  /\ PosIdle
  /\ VelIdle
  /\ prog \in {"analyze", "verify"}
  /\ pc = "start"
  /\ log = <<>>
  /\ env = NoEnv
  /\ exitCode = -1

\* part_000:10-19
VerifyStations ==
  /\ prog = "verify" /\ pc = "start"
  /\ env' = [env EXCEPT !.ecefRx = lla2ecef(rxLat, rxLon, rxAlt),
                        !.ecefTx = lla2ecef(txLat, txLon, txAlt)]
  /\ log' = log \o <<"compute ecefRx", "compute ecefTx">>
  /\ pc' = "fetch_feed"
  /\ UNCHANGED <<prog, exitCode, posVars, velVars>>

\* part_000:24-25, the feed answers
FetchFeed ==
  /\ prog = "verify" /\ pc = "fetch_feed"
  /\ \E j \in Feeds : env' = [env EXCEPT !.json = j]
  /\ log' = Append(log, "fetch feed")
  /\ pc' = "check_feed"
  /\ UNCHANGED <<prog, exitCode, posVars, velVars>>

\* part_000:24-25, fetch or response.json() rejects
FetchFeedFails ==
  /\ prog = "verify" /\ pc = "fetch_feed"
  /\ log' = log \o <<"fetch feed", "reject">>
  /\ pc' = "catch"
  /\ UNCHANGED <<prog, env, exitCode, posVars, velVars>>

\* part_000:27-35
CheckFeed ==
  /\ prog = "verify" /\ pc = "check_feed"
  /\ IF ~env.json.has_aircraft \/ Len(env.json.aircraft) = 0
     THEN /\ log' = Append(log, "print No aircraft found")
          /\ pc' = "done"
          /\ exitCode' = 0
          /\ env' = env
     ELSE /\ env' = [env EXCEPT !.aircraft = env.json.aircraft[1]]
          /\ log' = Append(log, "print aircraft")
          /\ pc' = "geometry"
          /\ exitCode' = exitCode
  /\ UNCHANGED <<prog, posVars, velVars>>

\* part_000:37-44
VerifyGeometry ==
  /\ prog = "verify" /\ pc = "geometry"
  /\ \E e \in {lla2ecef(env.aircraft.lat, env.aircraft.lon, ft2m(env.aircraft.alt_geom))} :
       env' = [env EXCEPT !.aircraft_ecef = e,
                          !.dRxTar = norm(Diff(env.ecefRx, e)),
                          !.dTxTar = norm(Diff(env.ecefTx, e))]
  /\ log' = log \o <<"compute aircraft_ecef", "compute dRxTar", "compute dTxTar">>
  /\ pc' = "manual"
  /\ UNCHANGED <<prog, exitCode, posVars, velVars>>

\* part_000:46-62
ComputeManual ==
  /\ prog = "verify" /\ pc = "manual"
  /\ \E d \in {calculateDopplerFromVelocity(env.aircraft, env.aircraft_ecef,
                                            env.ecefRx, env.ecefTx,
                                            env.dRxTar, env.dTxTar, fc)} :
       /\ env' = [env EXCEPT !.doppler_manual = d]
       /\ log' = log \o <<"compute doppler_manual",
                          IF d # Null THEN "print manual"
                          ELSE "print null (insufficient velocity data)">>
  /\ pc' = "fetch_api"
  /\ UNCHANGED <<prog, exitCode, posVars, velVars>>

\* part_000:64-71, the API answers
FetchApi ==
  /\ prog = "verify" /\ pc = "fetch_api"
  /\ \E r \in ApiResponses(env.aircraft.hex, env.doppler_manual) :
       env' = [env EXCEPT !.api_data = r]
  /\ log' = Append(log, "fetch api")
  /\ pc' = "report"
  /\ UNCHANGED <<prog, exitCode, posVars, velVars>>

\* part_000:70-71, fetch or api_response.json() rejects
FetchApiFails ==
  /\ prog = "verify" /\ pc = "fetch_api"
  /\ log' = log \o <<"fetch api", "reject">>
  /\ pc' = "catch"
  /\ UNCHANGED <<prog, env, exitCode, posVars, velVars>>

\* defect: the manual value is compared even when it is null
ComparesNull(doppler_manual, api_method) == api_method = "velocity"

\* part_000:82, whether the manual and the API value are compared
Compares(doppler_manual, api_method) ==
  doppler_manual # Null /\ api_method = "velocity"

\* part_000:83
AbsDiff(api_doppler, doppler_manual) == jsAbs(jsSub(api_doppler, doppler_manual))

\* part_000:84
PercentDiff(diff, doppler_manual) ==
  jsMul(jsDiv(diff, jsAbs(doppler_manual)), Number(100))

\* part_000:92-98
Verdict(percent_diff) ==
  IF jsLt(percent_diff, Number(1)) THEN "print PASS"
  ELSE IF jsLt(percent_diff, Number(5)) THEN "print WARN"
  ELSE "print FAIL"

\* part_000:83-98, the comparison of api_doppler with the manual value
Compare(api_doppler, diff, percent_diff) ==
  /\ env' = [env EXCEPT !.api_doppler = api_doppler, !.diff = diff,
                        !.percent_diff = percent_diff]
  /\ log' = log \o <<"print api response", "compute percent_diff",
                     "print comparison", Verdict(percent_diff), "print footer">>

\* part_000:76-99, the API has an entry for the aircraft
ReportEntry(entry, api_doppler) ==
  IF Compares(env.doppler_manual, entry.doppler_method)
  THEN \E diff \in {AbsDiff(api_doppler, env.doppler_manual)} :
         Compare(api_doppler, diff, PercentDiff(diff, env.doppler_manual))
  ELSE /\ env' = [env EXCEPT !.api_doppler = api_doppler]
       /\ log' = log \o <<"print api response", "print footer">>

\* part_000:73-104
Report ==
  /\ prog = "verify" /\ pc = "report"
  /\ IF env.api_data.error
     THEN /\ log' = log \o <<"print api error", "print footer">>
          /\ env' = env
     ELSE IF env.aircraft.hex \in DOMAIN env.api_data.entries
     THEN ReportEntry(env.api_data.entries[env.aircraft.hex],
                      parseFloat(env.api_data.entries[env.aircraft.hex].doppler))
     ELSE /\ log' = log \o <<"print not in API", "print footer">>
          /\ env' = env
  /\ pc' = "done"
  /\ exitCode' = 0
  /\ UNCHANGED <<prog, posVars, velVars>>

\* defect: the rejection is printed but the process exits normally
CatchWithoutExit ==
  /\ prog = "verify" /\ pc = "catch"
  /\ log' = Append(log, "print Error")
  /\ pc' = "done"
  /\ exitCode' = 0
  /\ UNCHANGED <<prog, env, posVars, velVars>>

\* part_000:107-110
Catch ==
  /\ prog = "verify" /\ pc = "catch"
  /\ log' = Append(log, "print Error")
  /\ pc' = "done"
  /\ exitCode' = 1
  /\ UNCHANGED <<prog, env, posVars, velVars>>

\* ------------------------------------------------------------------------
\* src/src/analyze_discrepancy.js: the synthetic scenario
\* ------------------------------------------------------------------------
gs == Dec(885, 10)

track == Number(270)

alt == Number(30100)

lat == Number(-35)

lon == Dec(13865, 100)

\* the loop runs for t = 0 .. LastT
LastT == 10

\* analyze_discrepancy.js:26-40
AnalyzeSetup ==
  /\ prog = "analyze" /\ pc = "start"
  /\ \E rx \in {lla2ecef(rxLat, rxLon, rxAlt)}, tx \in {lla2ecef(txLat, txLon, txAlt)} :
       env' = [env EXCEPT !.ecefRx = rx, !.ecefTx = tx,
                          !.dRxTx = norm(Diff(rx, tx)), !.t = 0]
  /\ positions' = <<>>
  /\ timestamps' = <<>>
  /\ log' = log \o <<"compute ecefRx", "compute ecefTx", "compute dRxTx">>
  /\ pc' = "loop"
  /\ UNCHANGED <<prog, exitCode, call, result, pcPos, velVars>>

\* analyze_discrepancy.js:43
LonOffset(t) == jsDiv(jsMul(jsMul(gs, Dec(514444, 1000000)), Number(t)), Number(111320))

\* analyze_discrepancy.js:44
NewLon(offset) ==
  jsAdd(lon, jsDiv(offset, MathCos(jsDiv(jsMul(lat, MathPI), Number(180)))))

\* analyze_discrepancy.js:42-48, one iteration of the loop or its exit
AnalyzeLoop ==
  /\ prog = "analyze" /\ pc = "loop"
  /\ IF env.t <= LastT
     THEN /\ positions' = Append(positions,
                                 lla2ecef(lat, NewLon(LonOffset(env.t)), ft2m(alt)))
          /\ timestamps' = Append(timestamps, Number(env.t))
          /\ env' = [env EXCEPT !.t = env.t + 1]
          /\ pc' = pc
     ELSE /\ pc' = "compute"
          /\ UNCHANGED <<positions, timestamps, env>>
  /\ UNCHANGED <<prog, log, exitCode, call, result, pcPos, velVars>>

\* analyze_discrepancy.js:50-53
AnalyzeTarget(aircraft_ecef) ==
  [env EXCEPT !.aircraft = Aircraft(Undefined, lat, lon, alt, gs, track, Undefined),
              !.aircraft_ecef = aircraft_ecef,
              !.dRxTar = norm(Diff(env.ecefRx, aircraft_ecef)),
              !.dTxTar = norm(Diff(env.ecefTx, aircraft_ecef))]

\* analyze_discrepancy.js:55-56
AnalyzeDoppler(e) ==
  [e EXCEPT !.doppler_vel =
              calculateDopplerFromVelocity(e.aircraft, e.aircraft_ecef, e.ecefRx,
                                           e.ecefTx, e.dRxTar, e.dTxTar, fc),
            !.doppler_pos =
              calculatePositionBasedDoppler(positions, timestamps, e.ecefRx,
                                            e.ecefTx, e.dRxTx, fc)]

\* analyze_discrepancy.js:50-56
AnalyzeCompute ==
  /\ prog = "analyze" /\ pc = "compute"
  /\ \E e \in {AnalyzeTarget(positions[Len(positions)])} : env' = AnalyzeDoppler(e)
  /\ log' = log \o <<"compute doppler_vel", "compute doppler_pos">>
  /\ pc' = "report"
  /\ UNCHANGED <<prog, exitCode, posVars, velVars>>

\* analyze_discrepancy.js:58-104
AnalyzeReport ==
  /\ prog = "analyze" /\ pc = "report"
  /\ log' = log \o <<"print results", "print uses median smoothing",
                     "print agree on sign and magnitude">>
  /\ pc' = "done"
  /\ exitCode' = 0
  /\ UNCHANGED <<prog, env, posVars, velVars>>

analyze_discrepancy ==
  \/ AnalyzeSetup
  \/ AnalyzeLoop
  \/ AnalyzeCompute
  \/ AnalyzeReport

manualVerification ==
  \/ VerifyStations
  \/ FetchFeed
  \/ FetchFeedFails
  \/ CheckFeed
  \/ VerifyGeometry
  \/ ComputeManual
  \/ FetchApi
  \/ FetchApiFails
  \/ Report
  \/ Catch

NextScripts == analyze_discrepancy \/ manualVerification

SpecScripts == InitScripts /\ [][NextScripts]_vars

\* the harness has finished, normally or not
Done == prog = "verify" /\ pc = "done"

Verdicts == {"print PASS", "print WARN", "print FAIL"}

VerdictCount == Cardinality({i \in 1..Len(log) : log[i] \in Verdicts})

\* the harness computed its manual value for an aircraft without ground
\* speed or without track
LacksVelocity ==
  /\ prog = "verify"
  /\ Logged("compute doppler_manual")
  /\ (env.aircraft.gs = Undefined \/ env.aircraft.track = Undefined)

\* C3: for an aircraft whose ground speed or track is absent the velocity
\* estimator returns null, the harness prints 'null (insufficient velocity
\* data)' and no numeric value, and it never compares with the API value.
C3_NullWithoutVelocity ==
  LacksVelocity =>
    /\ env.doppler_manual = Null
    /\ Logged("print null (insufficient velocity data)")
    /\ ~Logged("print manual")
    /\ ~Logged("compute percent_diff")
    /\ ~Logged("print comparison")
    /\ VerdictCount = 0

\* C3 happens: the aircraft has no ground speed, the API answered with an
\* entry of method 'velocity', and the harness finished without a comparison
C3_Witness ==
  /\ LacksVelocity /\ Done
  /\ env.aircraft.gs = Undefined
  /\ env.api_data.error = FALSE
  /\ env.aircraft.hex \in DOMAIN env.api_data.entries
  /\ env.api_data.entries[env.aircraft.hex].doppler_method = "velocity"
  /\ Logged("print api response")
  /\ exitCode = 0

\* the analysis script has computed both Doppler values
Analyzed == prog = "analyze" /\ pc \in {"report", "done"}

\* C7 as claimed: on the script's noise-free trajectory the velocity-based
\* and the position-based Doppler have the same sign and differ by at most
\* 1% of the velocity-based value.
C7_MethodsAgree ==
  Analyzed =>
    /\ env.doppler_vel.sg = env.doppler_pos.sg
    /\ ~jsLt(jsMul(jsAbs(env.doppler_vel), Dec(1, 100)),
             jsAbs(jsSub(env.doppler_pos, env.doppler_vel)))

\* the harness compared the manual value with the API value
Compared == prog = "verify" /\ Logged("compute percent_diff")

\* C9 as claimed: every computed percent difference gets exactly one
\* verdict, PASS below 1%, WARN from 1% to 5%, FAIL above 5%; a verdict is
\* printed only when the manual value is not null and the API method is
\* 'velocity'.
C9_VerdictThresholds ==
  /\ Compared =>
       /\ VerdictCount = 1
       /\ Logged("print PASS") <=> jsLt(env.percent_diff, Number(1))
       /\ Logged("print WARN") <=> ( /\ ~jsLt(env.percent_diff, Number(1))
                                    /\ ~jsLt(Number(5), env.percent_diff)
                                    /\ env.percent_diff.k = "num" )
       /\ Logged("print FAIL") <=> jsLt(Number(5), env.percent_diff)
  /\ (prog = "verify" /\ VerdictCount > 0) =>
       /\ env.doppler_manual # Null
       /\ env.api_data.entries[env.aircraft.hex].doppler_method = "velocity"

\* events of the harness that compute a value
Computations ==
  {"compute ecefRx", "compute ecefTx", "compute aircraft_ecef", "compute dRxTar",
   "compute dTxTar", "compute doppler_manual", "compute percent_diff"}

\* the feed answered without an aircraft list or with an empty one
EmptyFeed ==
  /\ Logged("fetch feed") /\ ~Logged("reject")
  /\ pc # "fetch_feed"
  /\ (~env.json.has_aircraft \/ env.json.aircraft = <<>>)

\* C10 as claimed: the feed is fetched before anything else is computed; an
\* absent or empty aircraft list ends the run without a Doppler value and
\* without an API query; otherwise the manual Doppler is computed before the
\* API is queried, the API is queried exactly once, and a failed fetch ends
\* the process with exit code 1 and without a comparison.
C10_FeedFetchedFirst ==
  prog = "verify" =>
    /\ \A c \in Computations : Precedes("fetch feed", c)
    /\ EmptyFeed => ~Logged("compute doppler_manual") /\ ~Logged("fetch api")
    /\ Precedes("compute doppler_manual", "fetch api")
    /\ Count("fetch api") <= 1
    /\ (Done /\ exitCode = 0 /\ ~EmptyFeed) => Count("fetch api") = 1
    /\ (Done /\ Logged("reject")) => exitCode = 1 /\ ~Logged("print comparison")

\* events of the harness that compute a value from the aircraft of the feed
AircraftComputations == Computations \ {"compute ecefRx", "compute ecefTx"}

\* C10 amended: the feed is fetched before anything that depends on an
\* aircraft is computed (the station coordinates are computed before the
\* fetch); an absent or empty aircraft list ends the run normally without a
\* Doppler value and without an API query; otherwise the manual Doppler of
\* the first aircraft is computed before the API is queried, the API is
\* queried exactly once, and a failed fetch ends the process with exit code 1
\* and without a comparison.
C10_Ordering ==
  prog = "verify" =>
    /\ \A c \in AircraftComputations : Precedes("fetch feed", c)
    /\ Precedes("compute ecefTx", "fetch feed")
    /\ EmptyFeed => ~Logged("compute doppler_manual") /\ ~Logged("fetch api")
    /\ (EmptyFeed /\ Done) => exitCode = 0 /\ Logged("print No aircraft found")
    /\ Logged("compute doppler_manual") => env.aircraft = env.json.aircraft[1]
    /\ Precedes("compute doppler_manual", "fetch api")
    /\ Count("fetch api") <= 1
    /\ (Done /\ exitCode = 0 /\ ~EmptyFeed) => Count("fetch api") = 1
    /\ Logged("reject") => pc \in {"catch", "done"} /\ ~Logged("print comparison")
    /\ (Done /\ Logged("reject")) => exitCode = 1
    /\ Done => (exitCode = 1 <=> Logged("reject"))

\* C10 amended happens: the API fetch failed after the manual Doppler of the
\* first of two aircraft was computed, and the process ended with exit code 1
C10_Witness ==
  /\ Done /\ exitCode = 1
  /\ Logged("compute doppler_manual")
  /\ Len(env.json.aircraft) = 2
  /\ Count("fetch api") = 1
  /\ Logged("reject")

====
